---- MODULE Spec2Model ----
(***************************************************************************)
(* Model of the curve-matching pipeline of mains.py (run_assignment) and   *)
(* of the numeric helpers of processors.py (MathEngine).                   *)
(*                                                                         *)
(* Numbers.  Series values are small naturals.  float('inf') and NaN are   *)
(* the negative sentinels Inf and NaN; Python's None (a missing column     *)
(* name) is the column number 0, the column 'y<k>' is the number k.        *)
(* get_threshold returns max_diff * sqrt(2); the non-negative real         *)
(* m * sqrt(2) is represented by its square 2*m*m, and the comparison      *)
(* deviation <= threshold by deviation^2 <= threshold^2, which is the same *)
(* order on non-negative reals.                                            *)
(*                                                                         *)
(* The code scans 4 training columns and 50 ideal columns (range(1,5),     *)
(* range(1,51)); the model scans NumTrain and NumIdeal columns.            *)
(***************************************************************************)
EXTENDS Integers, Sequences, FiniteSets, TLC

\* ---- bounds -------------------------------------------------------------
NumTrain == 2
NumIdeal == 2
TrainRows == 2
IdealRows == 2
MaxTrainVal == 1
MaxIdealVal == 1
MaxTestVal == 1
MaxTest == 2
MaxArgLen == 3
MaxArgVal == 2

\* ---- special values -----------------------------------------------------
Inf == -1
NaN == -2
None == 0
ValueError == -3

VARIABLES
  db,                \* table name -> "absent" | "previous" | "empty" | "current"
  train_df,          \* training column -> series of y values (row k has x = k)
  ideal_df,          \* ideal column -> series of y values (row k has x = k)
  test_df,           \* sequence of test rows [x, y]
  pc,                \* position of run_assignment
  error,             \* the exception run_assignment ended with, or "none"
  selected_ideals,   \* dict training column -> chosen ideal column
  i, j,              \* loop variables of the selection loops
  min_sse, best_fit_name,
  test_results_list, \* the records appended so far
  r, s,              \* test row index, position in selected_ideals.items()
  min_deviation, best_map,
  threshold,         \* the local of line 67 (squared), NaN before the first
  saved_results,     \* the rows written to table test_results
  t_pc, t_kind, t_train_y, t_ideal_y, t_result,  \* the unit-level harness
  v_pc,              \* position of visualize_results
  individual_plots   \* the sub-plots built: training column against ideal column

vars == <<db, train_df, ideal_df, test_df, pc, error, selected_ideals, i, j,
          min_sse, best_fit_name, test_results_list, r, s, min_deviation,
          best_map, threshold, saved_results,
          t_pc, t_kind, t_train_y, t_ideal_y, t_result,
          v_pc, individual_plots>>

runVars == <<db, train_df, ideal_df, test_df, pc, error, selected_ideals, i, j,
             min_sse, best_fit_name, test_results_list, r, s, min_deviation,
             best_map, threshold, saved_results>>

harnessVars == <<t_pc, t_kind, t_train_y, t_ideal_y, t_result>>

visVars == <<v_pc, individual_plots>>

Tables == {"training_data", "ideal_functions", "test_results"}

\* the contents of train.csv, ideal.csv and test.csv; row k of train.csv and
\* of ideal.csv has x = k, a test row has an x on the grid of ideal.csv or
\* one past it
TrainFrames == [1..NumTrain -> [1..TrainRows -> 0..MaxTrainVal]]

IdealFrames == UNION {[1..n -> [1..IdealRows -> 0..MaxIdealVal]] : n \in 0..NumIdeal}

TestPoint == [x : 1..(IdealRows + 1), y : 0..MaxTestVal]

TestFrames == UNION {[1..n -> TestPoint] : n \in 0..MaxTest}

\* ---- float helpers ------------------------------------------------------
Abs(v) == IF v < 0 THEN -v ELSE v

Max2(a, b) == IF a < b THEN b ELSE a

\* a < b on floats: false when either side is NaN, inf is above every number
FloatLt(a, b) ==
  /\ a # NaN /\ b # NaN
  /\ a # Inf
  /\ (b = Inf \/ a < b)

\* a variant that multiplies by 2 instead of sqrt(2)
TimesSqrt2_times2(m) == IF m = NaN THEN NaN ELSE 4 * m * m

\* m * sqrt(2) for m >= 0, kept as its square
TimesSqrt2(m) == IF m = NaN THEN NaN ELSE 2 * m * m

\* deviation <= threshold, the threshold kept as its square
LeqThreshold(deviation, thr) ==
  /\ thr # NaN
  /\ deviation * deviation <= thr

\* ---- pandas / numpy arithmetic -----------------------------------------
\* ndarray operands: equal shapes subtract elementwise, a length-1 operand
\* is broadcast, any other pair of shapes raises ValueError
CanBroadcast(a, b) == Len(a) = Len(b) \/ Len(a) = 1 \/ Len(b) = 1

Raises(kind, a, b) == kind = "ndarray" /\ ~CanBroadcast(a, b)

\* the length of the broadcast of two ndarrays that can be broadcast
BroadcastLen(a, b) == IF Len(a) = 1 THEN Len(b) ELSE Len(a)

\* a variant that adds the operands instead of subtracting them
Sub_plus(kind, a, b) ==
  IF kind = "Series"
    THEN [k \in 1..Max2(Len(a), Len(b)) |->
            IF k <= Len(a) /\ k <= Len(b) THEN <<TRUE, a[k] + b[k]>>
                                          ELSE <<FALSE, 0>>]
    ELSE [k \in 1..BroadcastLen(a, b) |->
            <<TRUE, (IF Len(a) = 1 THEN a[1] ELSE a[k])
                    + (IF Len(b) = 1 THEN b[1] ELSE b[k])>>]

\* train_y - ideal_y as a sequence of cells <<defined, value>>, so that a
\* NaN cell is never confused with a negative difference.
\* Series operands (RangeIndex) are aligned on the index: the result covers
\* the longer index and is NaN where one side has no such row.
Sub(kind, a, b) ==
  IF kind = "Series"
    THEN [k \in 1..Max2(Len(a), Len(b)) |->
            IF k <= Len(a) /\ k <= Len(b) THEN <<TRUE, a[k] - b[k]>>
                                          ELSE <<FALSE, 0>>]
    ELSE [k \in 1..BroadcastLen(a, b) |->
            <<TRUE, (IF Len(a) = 1 THEN a[1] ELSE a[k])
                    - (IF Len(b) = 1 THEN b[1] ELSE b[k])>>]

RECURSIVE SumSq(_)
\* (diff ** 2).sum(): NaN cells are skipped, the empty sum is 0
SumSq(cells) ==
  IF cells = <<>> THEN 0
  ELSE LET c == cells[Len(cells)]
           rest == SumSq(SubSeq(cells, 1, Len(cells) - 1))
       IN IF c[1] THEN rest + c[2] * c[2] ELSE rest

RECURSIVE MaxAbs(_)
\* np.max(np.abs(diff)): NaN cells are skipped, NaN when nothing is left
MaxAbs(cells) ==
  IF cells = <<>> THEN NaN
  ELSE LET c == cells[Len(cells)]
           rest == MaxAbs(SubSeq(cells, 1, Len(cells) - 1))
       IN IF ~c[1] THEN rest
          ELSE IF rest = NaN THEN Abs(c[2])
          ELSE Max2(rest, Abs(c[2]))

\* a variant that leaves the last row out of the sum
calculate_least_squares_of_droplast(kind, train_y, ideal_y) ==
  IF Raises(kind, train_y, ideal_y) THEN ValueError
  ELSE LET diff == Sub(kind, train_y, ideal_y)
       IN SumSq(SubSeq(diff, 1, Len(diff) - 1))

calculate_least_squares_of(kind, train_y, ideal_y) ==
  IF Raises(kind, train_y, ideal_y) THEN ValueError
  ELSE SumSq(Sub(kind, train_y, ideal_y))

\* np.max of an empty ndarray raises ValueError, of an empty Series is NaN
get_threshold_of(kind, train_y, ideal_y) ==
  IF Raises(kind, train_y, ideal_y) THEN ValueError
  ELSE IF kind = "ndarray" /\ Sub(kind, train_y, ideal_y) = <<>> THEN ValueError
  ELSE LET max_diff == MaxAbs(Sub(kind, train_y, ideal_y))
       IN TimesSqrt2(max_diff)

\* run_assignment passes columns of DataFrames, which are Series
calculate_least_squares(train_y, ideal_y) ==
  calculate_least_squares_of("Series", train_y, ideal_y)

get_threshold(train_y, ideal_y) ==
  get_threshold_of("Series", train_y, ideal_y)

\* ---- run_assignment -----------------------------------------------------
Failed ==
  /\ pc' = "failed"
  /\ error' = "DataValidationError"

\* a variant that also replaces the current best on an equal SSE
Improves_or_ties(sse, current_min) ==
  FloatLt(sse, current_min) \/ sse = current_min

\* line 48: if sse < min_sse
Improves(sse, current_min) == FloatLt(sse, current_min)

\* a variant with an exclusive bound
Qualifies_strict(deviation, thr) ==
  /\ thr # NaN
  /\ deviation * deviation < thr

\* a variant without the threshold test
Qualifies_always(deviation, thr) == TRUE

\* line 69: if deviation <= threshold
Qualifies(deviation, thr) == LeqThreshold(deviation, thr)

\* a variant that also replaces the current best on an equal deviation
MapImproves_or_ties(deviation, current_min) ==
  FloatLt(deviation, current_min) \/ deviation = current_min

\* line 70: if deviation < min_deviation
MapImproves(deviation, current_min) == FloatLt(deviation, current_min)

\* a variant that appends a record for every test row
Assigned_always(map_name) == TRUE

\* a variant with the test inverted
Assigned_inverted(map_name) == map_name = None

\* line 74: if best_map
Assigned(map_name) == map_name # None

\* a variant that reads the training column left over in the loop variable
\* of the selection loop
ThresholdFor_stale_train(train_col, ideal_col) ==
  get_threshold(train_df[i], ideal_df[ideal_col])

\* line 67: the threshold of the pair (train_col, ideal_col)
ThresholdFor(train_col, ideal_col) ==
  get_threshold(train_df[train_col], ideal_df[ideal_col])

\* a variant that visits the columns the frame has
ScanColumns_present == DOMAIN ideal_df

\* the columns range(1,51) of line 45 that the inner loop visits
ScanColumns == 1..NumIdeal

\* df[col] raises KeyError when the frame has no such column
HasColumn(df, col) == col \in DOMAIN df

\* ideal_df.loc[ideal_df['x'] == x_val, ideal_col].values: the rows whose x
\* equals x_val (row k has x = k)
RowsAt(x_val) == {k \in 1..IdealRows : k = x_val}

Init ==
  /\ db \in {[t \in Tables |-> "absent"], [t \in Tables |-> "previous"]}
  /\ train_df \in TrainFrames
  /\ ideal_df \in IdealFrames
  /\ test_df \in TestFrames
  /\ pc = "start"
  /\ error = "none"
  /\ selected_ideals = <<>>
  /\ i = 1 /\ j = 1
  /\ min_sse = Inf /\ best_fit_name = None
  /\ test_results_list = <<>>
  /\ r = 1 /\ s = 1
  /\ min_deviation = Inf /\ best_map = None
  /\ threshold = NaN
  /\ saved_results = <<>>
  /\ t_pc = "off" /\ t_kind = "Series"
  /\ t_train_y = <<>> /\ t_ideal_y = <<>> /\ t_result = NaN
  /\ v_pc = "idle" /\ individual_plots = <<>>

\* a variant that writes the two input tables right after reading the files
Setup_saves_early ==
  /\ pc = "start"
  /\ db' = [t \in Tables |-> IF t = "test_results" THEN "empty" ELSE "current"]
  /\ pc' = "select"
  /\ UNCHANGED <<train_df, ideal_df, test_df, error, selected_ideals, i, j,
                 min_sse, best_fit_name, test_results_list, r, s,
                 min_deviation, best_map, threshold, saved_results>>
  /\ UNCHANGED <<harnessVars, visVars>>

\* lines 17-37: drop and recreate the tables, read the CSV files
Setup ==
  /\ pc = "start"
  /\ db' = [t \in Tables |-> "empty"]
  /\ pc' = "select"
  /\ UNCHANGED <<train_df, ideal_df, test_df, error, selected_ideals, i, j,
                 min_sse, best_fit_name, test_results_list, r, s,
                 min_deviation, best_map, threshold, saved_results>>
  /\ UNCHANGED <<harnessVars, visVars>>

\* lines 45-50: one pass of the inner loop, for the column j
ScanIdeal ==
  /\ pc = "select"
  /\ j \in ScanColumns
  /\ IF ~HasColumn(ideal_df, j)
       THEN /\ Failed
            /\ UNCHANGED <<j, min_sse, best_fit_name>>
       ELSE LET sse == calculate_least_squares(train_df[i], ideal_df[j])
                better == Improves(sse, min_sse)
            IN /\ min_sse' = (IF better THEN sse ELSE min_sse)
               /\ best_fit_name' = (IF better THEN j ELSE best_fit_name)
               /\ j' = j + 1
               /\ UNCHANGED <<pc, error>>
  /\ UNCHANGED <<db, train_df, ideal_df, test_df, selected_ideals, i,
                 test_results_list, r, s, min_deviation, best_map, threshold,
                 saved_results>>
  /\ UNCHANGED <<harnessVars, visVars>>

\* a variant that initialises the running minimum once, before the outer loop
StoreBest_no_reset ==
  /\ pc = "select"
  /\ j \notin ScanColumns
  /\ selected_ideals' = Append(selected_ideals, best_fit_name)
  /\ j' = 1
  /\ UNCHANGED <<min_sse, best_fit_name>>
  /\ IF i < NumTrain
       THEN i' = i + 1 /\ pc' = pc
       ELSE i' = i /\ pc' = "map"
  /\ UNCHANGED <<db, train_df, ideal_df, test_df, error, test_results_list,
                 r, s, min_deviation, best_map, threshold, saved_results>>
  /\ UNCHANGED <<harnessVars, visVars>>

\* lines 52-53 once the inner loop is exhausted, then the head of the next
\* pass of the outer loop (lines 40-43) or the start of the mapping (56)
StoreBest ==
  /\ pc = "select"
  /\ j \notin ScanColumns
  /\ selected_ideals' = Append(selected_ideals, best_fit_name)
  /\ j' = 1
  /\ min_sse' = Inf
  /\ best_fit_name' = None
  /\ IF i < NumTrain
       THEN i' = i + 1 /\ pc' = pc
       ELSE i' = i /\ pc' = "map"
  /\ UNCHANGED <<db, train_df, ideal_df, test_df, error, test_results_list,
                 r, s, min_deviation, best_map, threshold, saved_results>>
  /\ UNCHANGED <<harnessVars, visVars>>

\* lines 63-72: one pass of the inner loop over selected_ideals.items(),
\* for the item at position s of test row r
MapStep ==
  /\ pc = "map"
  /\ r <= Len(test_df)
  /\ s <= Len(selected_ideals)
  /\ LET x_val == test_df[r].x
         y_val == test_df[r].y
         train_col == s
         ideal_col == selected_ideals[s]
     IN IF ~HasColumn(ideal_df, ideal_col) \/ RowsAt(x_val) = {}
          THEN /\ Failed
               /\ UNCHANGED <<s, min_deviation, best_map, threshold>>
          ELSE LET ideal_y == ideal_df[ideal_col][CHOOSE k \in RowsAt(x_val) : TRUE]
                   deviation == Abs(y_val - ideal_y)
                   thr == ThresholdFor(train_col, ideal_col)
                   better == Qualifies(deviation, thr)
                               /\ MapImproves(deviation, min_deviation)
               IN /\ threshold' = thr
                  /\ min_deviation' = (IF better THEN deviation ELSE min_deviation)
                  /\ best_map' = (IF better THEN ideal_col ELSE best_map)
                  /\ s' = s + 1
                  /\ UNCHANGED <<pc, error>>
  /\ UNCHANGED <<db, train_df, ideal_df, test_df, selected_ideals, i, j,
                 min_sse, best_fit_name, test_results_list, r, saved_results>>
  /\ UNCHANGED <<harnessVars, visVars>>

\* a variant that initialises the current best once, before the loop over
\* the test rows
EmitRow_no_reset ==
  /\ pc = "map"
  /\ r <= Len(test_df)
  /\ s > Len(selected_ideals)
  /\ test_results_list' =
       IF Assigned(best_map)
         THEN Append(test_results_list,
                     [x |-> test_df[r].x, y |-> test_df[r].y,
                      delta_y |-> min_deviation,
                      ideal_function_no |-> best_map])
         ELSE test_results_list
  /\ r' = r + 1
  /\ s' = 1
  /\ UNCHANGED <<min_deviation, best_map>>
  /\ UNCHANGED <<db, train_df, ideal_df, test_df, pc, error, selected_ideals,
                 i, j, min_sse, best_fit_name, threshold, saved_results>>
  /\ UNCHANGED <<harnessVars, visVars>>

\* lines 74-75 once the inner loop is exhausted, then the head of the next
\* test row (lines 58-61)
EmitRow ==
  /\ pc = "map"
  /\ r <= Len(test_df)
  /\ s > Len(selected_ideals)
  /\ test_results_list' =
       IF Assigned(best_map)
         THEN Append(test_results_list,
                     [x |-> test_df[r].x, y |-> test_df[r].y,
                      delta_y |-> min_deviation,
                      ideal_function_no |-> best_map])
         ELSE test_results_list
  /\ r' = r + 1
  /\ s' = 1
  /\ min_deviation' = Inf
  /\ best_map' = None
  /\ UNCHANGED <<db, train_df, ideal_df, test_df, pc, error, selected_ideals,
                 i, j, min_sse, best_fit_name, threshold, saved_results>>
  /\ UNCHANGED <<harnessVars, visVars>>

\* lines 77-89: write the tables; test_results only when there are records
Save ==
  /\ pc = "map"
  /\ r > Len(test_df)
  /\ db' = [t \in Tables |->
              IF t = "test_results" /\ test_results_list = <<>>
                THEN db[t] ELSE "current"]
  /\ saved_results' = test_results_list
  /\ pc' = "done"
  /\ UNCHANGED <<train_df, ideal_df, test_df, error, selected_ideals, i, j,
                 min_sse, best_fit_name, test_results_list, r, s,
                 min_deviation, best_map, threshold>>
  /\ UNCHANGED <<harnessVars, visVars>>

\* ---- visualize_results (visualization.py) -------------------------------
RECURSIVE Digits(_)
\* the decimal digits of the number in a column name 'y<k>'
Digits(k) == IF k < 10 THEN <<k>> ELSE Append(Digits(k \div 10), k % 10)

RECURSIVE LexLess(_, _)
\* the order of Python strings, on digit sequences
LexLess(a, b) ==
  IF b = <<>> THEN FALSE
  ELSE IF a = <<>> THEN TRUE
  ELSE IF a[1] # b[1] THEN a[1] < b[1]
  ELSE LexLess(Tail(a), Tail(b))

RECURSIVE SortNames(_)
\* chosen_ideals.sort() (line 35): column names in string order
SortNames(names) ==
  IF names = {} THEN <<>>
  ELSE LET first == CHOOSE a \in names :
                      \A b \in names \ {a} : LexLess(Digits(a), Digits(b))
       IN <<first>> \o SortNames(names \ {first})

\* lines 33-35: the distinct ideal_function_no values of table test_results
chosen_ideals ==
  SortNames({saved_results[n].ideal_function_no : n \in 1..Len(saved_results)})

\* lines 26-69, run after run_assignment has ended.  Table test_results as
\* create_all made it has a column ideal_func_number and no column
\* ideal_function_no, so line 33 raises unless to_sql replaced the table;
\* line 45-55 pairs the k-th sorted name with training column k; line 64
\* needs one plot per training column
Visualize ==
  /\ pc \in {"done", "failed"}
  /\ v_pc = "idle"
  /\ IF db["test_results"] # "current"
       THEN /\ v_pc' = "error"
            /\ individual_plots' = <<>>
       ELSE /\ individual_plots' =
                 [k \in 1..Len(chosen_ideals) |->
                    [train |-> k, ideal |-> chosen_ideals[k]]]
            /\ v_pc' = (IF Len(chosen_ideals) >= NumTrain THEN "shown"
                                                         ELSE "error")
  /\ UNCHANGED <<runVars, harnessVars>>

Next == Setup \/ ScanIdeal \/ StoreBest \/ MapStep \/ EmitRow \/ Save \/ Visualize

Spec == Init /\ [][Next]_vars

\* ---- the unit-level harness of test_logics.py ---------------------------
ArgVal == 0..MaxArgVal

ArgSeq == UNION {[1..n -> ArgVal] : n \in 0..MaxArgLen}

MathInit ==
  /\ db = [t \in Tables |-> "absent"]
  /\ train_df = <<>> /\ ideal_df = <<>> /\ test_df = <<>>
  /\ pc = "off"
  /\ error = "none"
  /\ selected_ideals = <<>>
  /\ i = 1 /\ j = 1
  /\ min_sse = Inf /\ best_fit_name = None
  /\ test_results_list = <<>>
  /\ r = 1 /\ s = 1
  /\ min_deviation = Inf /\ best_map = None
  /\ threshold = NaN
  /\ saved_results = <<>>
  /\ t_pc = "setUp"
  /\ t_kind \in {"Series", "ndarray"}
  /\ t_train_y \in ArgSeq
  /\ t_ideal_y \in ArgSeq
  /\ t_result = NaN
  /\ v_pc = "off" /\ individual_plots = <<>>

\* a call of engine.calculate_least_squares(y_train, y_ideal)
CallLeastSquares ==
  /\ t_pc = "setUp"
  /\ t_result' = calculate_least_squares_of(t_kind, t_train_y, t_ideal_y)
  /\ t_pc' = "least_squares"
  /\ UNCHANGED <<t_kind, t_train_y, t_ideal_y>>
  /\ UNCHANGED <<runVars, visVars>>

\* a call of engine.get_threshold(train_y, ideal_y)
CallThreshold ==
  /\ t_pc = "setUp"
  /\ t_result' = get_threshold_of(t_kind, t_train_y, t_ideal_y)
  /\ t_pc' = "threshold"
  /\ UNCHANGED <<t_kind, t_train_y, t_ideal_y>>
  /\ UNCHANGED <<runVars, visVars>>

MathNext == CallLeastSquares \/ CallThreshold

MathSpec == MathInit /\ [][MathNext]_vars

\* ---- reference definitions for the properties ---------------------------
Min2(a, b) == IF a < b THEN a ELSE b

\* the rows two series have in common
Common(a, b) == 1..Min2(Len(a), Len(b))

RECURSIVE SumOver(_, _)
SumOver(f, rows) ==
  IF rows = {} THEN 0
  ELSE LET k == CHOOSE k \in rows : TRUE
       IN f[k] + SumOver(f, rows \ {k})

\* the sum of squared errors of two aligned series
RefSSE(a, b) ==
  SumOver([k \in Common(a, b) |-> (a[k] - b[k]) * (a[k] - b[k])], Common(a, b))

\* the largest absolute pointwise deviation of two aligned series
RefMaxDev(a, b) ==
  LET devs == {Abs(a[k] - b[k]) : k \in Common(a, b)}
  IN CHOOSE m \in devs : \A d \in devs : d <= m

\* the SSE of ideal column c against training column t
SSE(t, c) == RefSSE(train_df[t], ideal_df[c])

\* the training columns whose Selection has been stored
Selected == DOMAIN selected_ideals

\* the deviation of test row k from the candidate of Selection t
Dev(k, t) == Abs(test_df[k].y - ideal_df[selected_ideals[t]][test_df[k].x])

\* the square of the threshold of Selection t: (max deviation * sqrt(2))^2
SelThresholdSq(t) ==
  LET m == RefMaxDev(train_df[t], ideal_df[selected_ideals[t]])
  IN 2 * m * m

\* test row k is within the threshold of Selection t
Within(k, t) == Dev(k, t) * Dev(k, t) <= SelThresholdSq(t)

\* the Selections among ts that test row k qualifies for
QualifyingIn(k, ts) == {t \in ts : Within(k, t)}

\* the qualifying Selection that wins test row k among ts: smallest
\* deviation, then smallest training label
Winner(k, ts) ==
  CHOOSE t \in QualifyingIn(k, ts) :
    \A u \in QualifyingIn(k, ts) :
      Dev(k, t) < Dev(k, u) \/ (Dev(k, t) = Dev(k, u) /\ t <= u)

OnGrid(k) == test_df[k].x \in 1..IdealRows

\* the inner mapping loop is at test row r and has scanned Selections 1..s-1
Scanning == pc = "map" /\ r <= Len(test_df)

Scanned == 1..(s - 1)

\* ---- properties ---------------------------------------------------------

\* C1: for every training series whose Selection is stored, the stored
\* candidate is a column of the pool and its SSE against that training
\* series is less than or equal to the SSE of every candidate of the pool.
C1_GlobalMinimizer ==
  \A t \in Selected :
    /\ selected_ideals[t] \in 1..NumIdeal
    /\ \A c \in 1..NumIdeal : SSE(t, selected_ideals[t]) <= SSE(t, c)

\* a finished selection that chose a candidate other than the first one,
\* with a strictly worse candidate in the pool
C1_Witness ==
  /\ pc = "done"
  /\ \E t \in Selected :
       /\ selected_ideals[t] > 1
       /\ \E c \in 1..NumIdeal : SSE(t, selected_ideals[t]) < SSE(t, c)

\* C2: when several candidates have the same minimal SSE against a training
\* series, the stored candidate is the one with the lowest label.
C2_LowestLabelOnTie ==
  \A t \in Selected :
    \A c \in 1..NumIdeal :
      (HasColumn(ideal_df, selected_ideals[t])
         /\ SSE(t, c) = SSE(t, selected_ideals[t]))
        => selected_ideals[t] <= c

\* a stored Selection whose minimal SSE is shared by another candidate
C2_Witness ==
  \E t \in Selected :
    \E c \in 1..NumIdeal :
      /\ c # selected_ideals[t]
      /\ SSE(t, c) = SSE(t, selected_ideals[t])

\* C3: while a test row is scanned, the row has a current best candidate
\* if and only if its deviation is within the threshold (inclusive) of one
\* of the Selections scanned so far, and the current best is the candidate
\* of a scanned Selection whose threshold the kept deviation does not exceed.
C3_QualifiesIffWithinThreshold ==
  Scanning =>
    /\ (best_map # None) <=> (QualifyingIn(r, Scanned) # {})
    /\ best_map # None =>
         \E t \in Scanned :
           /\ selected_ideals[t] = best_map
           /\ Dev(r, t) = min_deviation
           /\ Within(r, t)

\* a row scanned completely that one Selection excluded and another one
\* accepted with a deviation equal to its threshold
C3_Witness ==
  /\ Scanning
  /\ s > Len(selected_ideals)
  /\ best_map # None
  /\ \E t \in Scanned : ~Within(r, t)
  /\ \E t \in Scanned : Dev(r, t) * Dev(r, t) = SelThresholdSq(t)

\* C4: while a test row is scanned and a Selection scanned so far
\* qualifies, the current best is the candidate of the qualifying Selection
\* with the smallest deviation, of the smallest training label among those
\* with that deviation, and the kept deviation is that smallest deviation.
C4_SmallestDeviationLowestLabel ==
  (Scanning /\ QualifyingIn(r, Scanned) # {}) =>
    /\ best_map = selected_ideals[Winner(r, Scanned)]
    /\ min_deviation = Dev(r, Winner(r, Scanned))

\* a row scanned completely for which two Selections with different
\* candidates qualify with the same smallest deviation
C4_Witness ==
  /\ Scanning
  /\ s > Len(selected_ideals)
  /\ \E t, u \in QualifyingIn(r, Scanned) :
       /\ t < u
       /\ selected_ideals[t] # selected_ideals[u]
       /\ Dev(r, t) = Dev(r, u)
       /\ \A v \in QualifyingIn(r, Scanned) : Dev(r, t) <= Dev(r, v)

\* C5: when the scan of a test row ends with no qualifying Selection, the
\* next step appends no record, raises no error and moves on to the next
\* row; a run that ended with "done" raised no error.
C5_UnassignedIsNormal ==
  [][(Scanning /\ s > Len(selected_ideals)
        /\ QualifyingIn(r, Selected) = {})
       => /\ test_results_list' = test_results_list
          /\ pc' = "map" /\ error' = "none"
          /\ r' = r + 1]_vars

\* a completed run with a test row that no Selection qualified for
C5_Witness ==
  /\ pc = "done"
  /\ error = "none"
  /\ \E k \in 1..Len(test_df) : QualifyingIn(k, Selected) = {}

\* the test rows whose scan has ended
RowsDone == IF pc = "done" THEN Len(test_df) ELSE r - 1

RECURSIVE AssignedRows(_)
\* the rows among 1..k that qualify for some Selection, in row order
AssignedRows(k) ==
  IF k = 0 THEN <<>>
  ELSE IF QualifyingIn(k, Selected) = {} THEN AssignedRows(k - 1)
  ELSE Append(AssignedRows(k - 1), k)

RECURSIVE ExpectedRecords(_)
\* the records of rows 1..k under thresholds computed once per Selection
ExpectedRecords(k) ==
  IF k = 0 THEN <<>>
  ELSE IF QualifyingIn(k, Selected) = {} THEN ExpectedRecords(k - 1)
  ELSE Append(ExpectedRecords(k - 1),
              [x |-> test_df[k].x, y |-> test_df[k].y,
               delta_y |-> Dev(k, Winner(k, Selected)),
               ideal_function_no |-> selected_ideals[Winner(k, Selected)]])

\* C6 as stated: a completed run has emitted and persisted one record per
\* test point, so the number of records equals the number of test points.
C6_OneRecordPerTestPoint ==
  pc = "done" =>
    /\ Len(test_results_list) = Len(test_df)
    /\ saved_results = test_results_list

\* C6 amended: the records are, in row order, exactly the test points that
\* qualify for at least one Selection (an unassigned point has no record),
\* and a completed run has handed that list to persistence unchanged,
\* writing table test_results only when the list is not empty.
C6_OneRecordPerAssignedPoint ==
  pc \in {"map", "done"} =>
    LET rows == AssignedRows(RowsDone)
    IN /\ Len(test_results_list) = Len(rows)
       /\ \A n \in 1..Len(rows) :
            /\ test_results_list[n].x = test_df[rows[n]].x
            /\ test_results_list[n].y = test_df[rows[n]].y
       /\ pc = "done" =>
            /\ saved_results = test_results_list
            /\ (db["test_results"] = "current") <=> (test_results_list # <<>>)

\* a completed run with an assigned and an unassigned test point
C6_Witness ==
  /\ pc = "done"
  /\ \E k \in 1..Len(test_df) : QualifyingIn(k, Selected) = {}
  /\ \E k \in 1..Len(test_df) : QualifyingIn(k, Selected) # {}
  /\ saved_results # <<>>

\* C7: in every pass of the mapping loop, for every test row, the threshold
\* the deviation is compared against is the threshold of the Selection
\* (training series, selected candidate) being scanned, and the records of
\* the rows done are those a mapping with once-computed thresholds yields.
C7_ThresholdFixedPerSelection ==
  /\ (Scanning /\ s > 1) => threshold = SelThresholdSq(s - 1)
  /\ pc \in {"map", "done"} => test_results_list = ExpectedRecords(RowsDone)

\* the second test row being scanned, the Selections having different
\* thresholds, with a record already appended for the first row
C7_Witness ==
  /\ Scanning
  /\ r = 2 /\ s > 1
  /\ test_results_list # <<>>
  /\ \E t, u \in Selected : SelThresholdSq(t) # SelThresholdSq(u)

\* C8 as stated: a call of calculate_least_squares or get_threshold with
\* arguments of different lengths raises and returns no number.
C8_DimensionMismatch ==
  (t_pc \in {"least_squares", "threshold"} /\ Len(t_train_y) # Len(t_ideal_y))
    => t_result = ValueError

\* C9 as stated: once the run has ended after a complete selection, every
\* test point whose x is on the grid and that qualifies for a Selection has
\* its record persisted, whatever happened to the other points.
C9_OtherPointsStillMapped ==
  (pc \in {"done", "failed"} /\ Len(selected_ideals) = NumTrain) =>
    \A k \in 1..Len(test_df) :
      (OnGrid(k) /\ QualifyingIn(k, Selected) # {}) =>
        \E n \in 1..Len(saved_results) :
          /\ saved_results[n].x = test_df[k].x
          /\ saved_results[n].y = test_df[k].y

\* C10: no stored Selection has an absent (None) candidate, and with an
\* empty candidate pool the run stores no Selection, never enters the
\* mapping, appends no record, and once it has left the first pass of the
\* selection scan it has ended with the error raised by run_assignment.
C10_EmptyPoolAborts ==
  /\ \A t \in Selected : selected_ideals[t] # None
  /\ ideal_df = <<>> =>
       /\ selected_ideals = <<>>
       /\ test_results_list = <<>> /\ saved_results = <<>>
       /\ pc \in {"start", "select", "failed"}
       /\ pc = "select" => (i = 1 /\ j = 1 /\ best_fit_name = None)
       /\ pc = "failed" => error = "DataValidationError"

\* a run over an empty pool and a non-empty test set that has ended
C10_Witness ==
  /\ ideal_df = <<>>
  /\ test_df # <<>>
  /\ pc = "failed"
  /\ error = "DataValidationError"

\* a call of the harness has returned
Returned == t_pc \in {"least_squares", "threshold"}

\* C13 as stated: for any series s, calculate_least_squares(s, s) and
\* get_threshold(s, s) are 0.
C13_IdentityAnySeries ==
  (Returned /\ t_train_y = t_ideal_y) => t_result = 0

\* C13 amended: for any series s with at least one value,
\* calculate_least_squares(s, s) and get_threshold(s, s) are 0, and
\* calculate_least_squares(s, s) is 0 for the empty series as well.
C13_IdentityNonEmptySeries ==
  (Returned /\ t_train_y = t_ideal_y) =>
    /\ t_train_y # <<>> => t_result = 0
    /\ t_pc = "least_squares" => t_result = 0

\* get_threshold has returned for a series of several values, not all 0,
\* compared with itself
C13_Witness ==
  /\ t_pc = "threshold"
  /\ t_train_y = t_ideal_y
  /\ Len(t_train_y) >= 2
  /\ \E k \in 1..Len(t_train_y) : t_train_y[k] > 0
  /\ t_result = 0

\* C14: for every pair of aligned (equally long, non-empty) sequences the
\* square of the value get_threshold returns is twice the square of the
\* largest absolute pointwise deviation, that is, the value is that
\* deviation multiplied by sqrt(2).
C14_ThresholdIsMaxDevTimesSqrt2 ==
  (t_pc = "threshold" /\ Len(t_train_y) = Len(t_ideal_y) /\ t_train_y # <<>>)
    => LET m == RefMaxDev(t_train_y, t_ideal_y)
       IN t_result = 2 * m * m

\* get_threshold has returned for two sequences whose largest deviation is
\* neither the first nor the last one and is reached with a negative
\* difference
C14_Witness ==
  /\ t_pc = "threshold"
  /\ Len(t_train_y) = 3 /\ Len(t_ideal_y) = 3
  /\ t_train_y[2] - t_ideal_y[2] = -2
  /\ Abs(t_train_y[1] - t_ideal_y[1]) = 1
  /\ Abs(t_train_y[3] - t_ideal_y[3]) = 0
  /\ t_result = 8

\* the deviation of a test point p from the candidate of Selection t
PointDev(p, t) == Abs(p.y - ideal_df[selected_ideals[t]][p.x])

\* the Selections a test point p qualifies for
PointQualifying(p) ==
  {t \in Selected : PointDev(p, t) * PointDev(p, t) <= SelThresholdSq(t)}

\* the result of a test point as a function of the point, the Selections
\* and the candidate values alone: <<candidate, deviation>>
PointResult(p) ==
  IF PointQualifying(p) = {} THEN <<None, Inf>>
  ELSE LET w == CHOOSE t \in PointQualifying(p) :
                  \A u \in PointQualifying(p) :
                    PointDev(p, t) < PointDev(p, u)
                      \/ (PointDev(p, t) = PointDev(p, u) /\ t <= u)
       IN <<selected_ideals[w], PointDev(p, w)>>

\* C11: the scan of every test row starts from the same empty current best,
\* whatever rows came before; the result it ends with is the result that
\* the point, the Selections and the candidate values determine, at
\* whatever position the point stands in test_df; and two records of the
\* same point (a re-run) are identical.
C11_MappingStatelessPerPoint ==
  /\ (Scanning /\ s = 1) => (min_deviation = Inf /\ best_map = None)
  /\ (Scanning /\ s > Len(selected_ideals))
       => <<best_map, min_deviation>> = PointResult(test_df[r])
  /\ \A n, m \in 1..Len(test_results_list) :
       (test_results_list[n].x = test_results_list[m].x
          /\ test_results_list[n].y = test_results_list[m].y)
         => test_results_list[n] = test_results_list[m]

\* the second test row scanned completely and found unassigned, after a
\* first, different row that was assigned
C11_Witness ==
  /\ Scanning
  /\ r = 2 /\ s > Len(selected_ideals)
  /\ test_df[1] # test_df[2]
  /\ test_results_list # <<>>
  /\ best_map = None

\* the first column among cols with the smallest SSE against a series: a
\* function of that series and of the pool alone
FirstArgMin(series, pool, cols) ==
  CHOOSE c \in cols :
    \A d \in cols :
      RefSSE(series, pool[c]) < RefSSE(series, pool[d])
        \/ (RefSSE(series, pool[c]) = RefSSE(series, pool[d]) /\ c <= d)

\* C12: a finished selection has stored exactly one Selection per training
\* label 1..NumTrain; the Selection of training series t is the candidate
\* that series t and the pool alone determine; every scan starts with its
\* own fresh running minimum, and during the scan of series i the running
\* minimum is the one series i and the columns scanned so far determine.
\* Scans that each keep their own running minimum therefore yield the same
\* Selection set in any order.
C12_SelectionsIndependent ==
  /\ Len(selected_ideals) <= NumTrain
  /\ pc \in {"map", "done"} => Len(selected_ideals) = NumTrain
  /\ \A t \in Selected :
       selected_ideals[t] = FirstArgMin(train_df[t], ideal_df, 1..NumIdeal)
  /\ pc = "select" =>
       /\ Len(selected_ideals) = i - 1
       /\ IF j = 1
            THEN min_sse = Inf /\ best_fit_name = None
            ELSE /\ best_fit_name = FirstArgMin(train_df[i], ideal_df, 1..(j - 1))
                 /\ min_sse = RefSSE(train_df[i], ideal_df[best_fit_name])

\* a finished selection whose second scan ended on a larger minimum and on
\* another candidate than the first scan
C12_Witness ==
  /\ pc = "done"
  /\ selected_ideals[1] # selected_ideals[2]
  /\ SSE(2, selected_ideals[2]) > SSE(1, selected_ideals[1])

\* C15: every record appended to test_results_list names a candidate that
\* some Selection chose, its delta_y is the absolute difference between its
\* y and the value of that candidate at its x, and its delta_y does not
\* exceed the threshold of a Selection that chose that candidate.
C15_RecordsAreSound ==
  \A n \in 1..Len(test_results_list) :
    LET rec == test_results_list[n]
    IN \E t \in Selected :
         /\ selected_ideals[t] = rec.ideal_function_no
         /\ rec.delta_y = Abs(rec.y - ideal_df[rec.ideal_function_no][rec.x])
         /\ rec.delta_y * rec.delta_y <= SelThresholdSq(t)

\* a completed run with a record of a non-zero deviation
C15_Witness ==
  /\ pc = "done"
  /\ \E n \in 1..Len(test_results_list) : test_results_list[n].delta_y > 0

\* C16: a run that failed ended with DataValidationError and has written no
\* table: all three tables are the empty ones created at the start and no
\* result row was saved; a table holds data of this run only once selection
\* and the mapping of every test row have finished; and from the first step
\* on no table of the previous run is left.
C16_PersistOnlyAfterMapping ==
  /\ pc = "failed" =>
       /\ error = "DataValidationError"
       /\ \A t \in Tables : db[t] = "empty"
       /\ saved_results = <<>>
  /\ (\E t \in Tables : db[t] = "current") =>
       /\ pc = "done"
       /\ Len(selected_ideals) = NumTrain
       /\ r > Len(test_df)
  /\ pc # "start" => \A t \in Tables : db[t] # "previous"

\* a run that failed in the mapping after a record had been appended
C16_Witness ==
  /\ pc = "failed"
  /\ Len(selected_ideals) = NumTrain
  /\ test_results_list # <<>>
  /\ \A t \in Tables : db[t] = "empty"

\* C17 as stated: when the visualization is shown, it has one sub-plot per
\* training series and the candidate plotted against training series k is
\* the candidate that selection chose for training series k.
C17_PlottedPairingIsSelection ==
  v_pc = "shown" =>
    /\ Len(individual_plots) = NumTrain
    /\ \A k \in 1..Len(individual_plots) :
         individual_plots[k].ideal = selected_ideals[individual_plots[k].train]

====
